---- MODULE Spec2Model ----
(***************************************************************************)
(* RNLI Launches (custom_components/RNLI): the sensor platform's update    *)
(* coordinator, its fetch/filter/sort step and the sensor view; the config *)
(* flow and the entry registry of __init__.py.                             *)
(*                                                                         *)
(* Specifications:                                                         *)
(*   Spec          one config entry: setup, refreshes, unload              *)
(*   FairSpec      the same steps with fair timers and awaits              *)
(*   SpecSelect    the filter/sort step alone                              *)
(*   SpecView      the sensor's state and attributes alone                 *)
(*   SpecStations  the coordinators of two entries                         *)
(*   SpecFlow      config flows, entry setup and unload                    *)
(*                                                                         *)
(* RNLIUpdateCoordinator derives from Home Assistant's                     *)
(* DataUpdateCoordinator and RNLILaunchSensor from CoordinatorEntity; the  *)
(* inherited refresh machinery (_async_refresh, the request debouncer,     *)
(* async_config_entry_first_refresh, listener notification) is modelled at *)
(* the places where sensor.py invokes or inherits it.                      *)
(*                                                                         *)
(* JSON / Python values are tagged records, one field name per type, so    *)
(* that values of different types are unequal and typed operations can     *)
(* fail the way they do in Python:                                         *)
(*   [str |-> <<code points>>]   a str (compared lexicographically)        *)
(*   [num |-> n]                 a number                                  *)
(*   [null |-> TRUE]             None / JSON null                          *)
(*   [arr |-> <<values>>]        a list / JSON array                       *)
(*   [obj |-> [key |-> value]]   a dict / JSON object                      *)
(***************************************************************************)
EXTENDS Integers, Sequences, FiniteSets

\* ------------------------------------------------------------------------
\* Bounds of the model
\* ------------------------------------------------------------------------

\* longest response array fed to the filter/sort step alone (SpecSelect)
MaxLen == 4

\* SCAN_INTERVAL = timedelta(minutes=5), in seconds
SCAN_INTERVAL == 300

\* longest response array the endpoint serves to the coordinator (Spec)
MaxBody == 2

\* ------------------------------------------------------------------------
\* Values
\* ------------------------------------------------------------------------

Str(s) == [str |-> s]

Num(n) == [num |-> n]

None == [null |-> TRUE]

Arr(s) == [arr |-> s]

Obj(f) == [obj |-> f]

IsStr(x) == DOMAIN x = {"str"}

IsNum(x) == DOMAIN x = {"num"}

IsArr(x) == DOMAIN x = {"arr"}

IsObj(x) == DOMAIN x = {"obj"}

\* the empty str "", the default of x.get("launchDate", "")
EmptyStr == <<>>

\* station short names, as code points: "ABC" and "XYZ"
ABC == <<65, 66, 67>>

XYZ == <<88, 89, 90>>

\* launchDate strings.  An ISO-8601 timestamp "2024-01-01T0h:00:00+0o:00"
\* is the pair <<h, o>> of its hour digit and its UTC-offset digit, which is
\* all that varies between the timestamps used here: string comparison is
\* lexicographic on the pair.  Any other string is not ISO-8601.
Iso(h, o) == <<h, o>>

\* "n/a": not a timestamp
Garbage == <<110, 47, 97>>

\* dict.get(key): the value, or None when the key is absent
Get(x, key) == IF key \in DOMAIN x.obj THEN x.obj[key] ELSE None

\* dict.get(key, default)
GetOr(x, key, default) == IF key \in DOMAIN x.obj THEN x.obj[key] ELSE default

\* Python's str < str: lexicographic by code point
RECURSIVE StrLess(_, _)
StrLess(a, b) ==
    IF b = <<>> THEN FALSE
    ELSE IF a = <<>> THEN TRUE
    ELSE IF Head(a) # Head(b) THEN Head(a) < Head(b)
    ELSE StrLess(Tail(a), Tail(b))

\* whether Python's < is defined between two sort keys (else TypeError)
Comparable(k1, k2) == (IsStr(k1) /\ IsStr(k2)) \/ (IsNum(k1) /\ IsNum(k2))

\* k1 < k2 for comparable keys
KeyLess(k1, k2) ==
    IF IsStr(k1) /\ IsStr(k2) THEN StrLess(k1.str, k2.str)
    ELSE IF IsNum(k1) /\ IsNum(k2) THEN k1.num < k2.num
    ELSE FALSE

\* ------------------------------------------------------------------------
\* Filter / sort  (sensor.py, _async_update_data lines 80-90)
\* ------------------------------------------------------------------------

\* the sort key: lambda x: x.get("launchDate", "")
SortKey(x) == GetOr(x, "launchDate", Str(EmptyStr))

\* launch.get("shortName") == self.station_short_name
MatchesStation(launch, station) ==
    LET v == Get(launch, "shortName") IN IsStr(v) /\ v.str = station

\* the list comprehension of lines 81-84
RECURSIVE FilterStation(_, _)
FilterStation(records, station) ==
    IF records = <<>> THEN <<>>
    ELSE LET rest == FilterStation(Tail(records), station)
         IN IF MatchesStation(Head(records), station)
            THEN <<Head(records)>> \o rest
            ELSE rest

\* (a sort that is not stable: an element goes before its equals)
RECURSIVE InsertUnstable(_, _)
InsertUnstable(x, s) ==
    IF s = <<>> THEN <<x>>
    ELSE IF ~KeyLess(SortKey(x), SortKey(Head(s))) THEN <<x>> \o s
    ELSE <<Head(s)>> \o InsertUnstable(x, Tail(s))

\* list.sort(key=..., reverse=True) is stable: an element goes after every
\* element whose key is greater than or equal to its own.
RECURSIVE InsertDesc(_, _)
InsertDesc(x, s) ==
    IF s = <<>> THEN <<x>>
    ELSE IF KeyLess(SortKey(Head(s)), SortKey(x)) THEN <<x>> \o s
    ELSE <<Head(s)>> \o InsertDesc(x, Tail(s))

RECURSIVE SortDesc(_)
SortDesc(s) ==
    IF s = <<>> THEN <<>>
    ELSE InsertDesc(s[Len(s)], SortDesc(SubSeq(s, 1, Len(s) - 1)))

\* sort() raises TypeError when two of the keys cannot be compared; with two
\* or more elements every element takes part in a comparison.
SortRaises(s) ==
    /\ Len(s) >= 2
    /\ \E i, j \in 1..Len(s) : i # j /\ ~Comparable(SortKey(s[i]), SortKey(s[j]))

\* lines 81-90 on a list of objects
Select(records, station) == SortDesc(FilterStation(records, station))

\* ------------------------------------------------------------------------
\* The fetch  (sensor.py, _async_update_data lines 71-95)
\* ------------------------------------------------------------------------

\* text of the UpdateFailed raised at line 93
FetchErrorText == "Error fetching data from RNLI API"

\* text of the UpdateFailed raised at line 95
ParseErrorText == "Unknown error parsing RNLI API data"

\* the exception classes that derive from aiohttp.ClientError:
\* connection failures, raise_for_status() on a bad status, and json() on a
\* response whose content type is not JSON
ClientErrors == {"ClientConnectionError", "ClientResponseError", "ContentTypeError"}

\* every exception of lines 75-90 leaves _async_update_data as an
\* UpdateFailed chained to it (raise ... from err): line 92 catches
\* aiohttp.ClientError, line 94 everything else
UpdateFailed(cause) ==
    [exc |-> "UpdateFailed",
     text |-> IF cause \in ClientErrors THEN FetchErrorText ELSE ParseErrorText,
     cause |-> cause]

\* what the awaits of lines 76-77 can end in, besides a 2xx response:
\* the 10 s timeout, a connection failure, a non-2xx status
GetFailures == {"TimeoutError", "ClientConnectionError", "ClientResponseError"}

\* what the await of line 78 can end in, besides a decoded body
JsonFailures == {"TimeoutError", "ContentTypeError", "JSONDecodeError"}

Ok(value) == [ok |-> TRUE, value |-> value]

Raise(cause) == [ok |-> FALSE, exc |-> UpdateFailed(cause)]

\* `for launch in data`: a list yields its elements, a dict its keys and a
\* str its characters (strs either way; only their type matters to line 83)
Iterate(body) ==
    IF IsArr(body) THEN body.arr
    ELSE IF IsObj(body) THEN [i \in 1..Cardinality(DOMAIN body.obj) |-> Str(EmptyStr)]
    ELSE [i \in 1..Len(body.str) |-> Str(<<body.str[i]>>)]

\* lines 81-90 on the decoded body: a number or null is not iterable
\* (TypeError), an element that is no dict has no .get (AttributeError),
\* sort() fails on keys that cannot be compared (TypeError)
ProcessBody(body, station) ==
    IF IsNum(body) \/ body = None THEN Raise("TypeError")
    ELSE LET items == Iterate(body) IN
         IF \E i \in 1..Len(items) : ~IsObj(items[i]) THEN Raise("AttributeError")
         ELSE IF SortRaises(FilterStation(items, station)) THEN Raise("TypeError")
         ELSE Ok(Arr(Select(items, station)))

\* ------------------------------------------------------------------------
\* The sensor view  (sensor.py, RNLILaunchSensor.state lines 120-133)
\* ------------------------------------------------------------------------

\* "unknown"
Unknown == <<117, 110, 107, 110, 111, 119, 110>>

\* datetime.fromisoformat on a str: the parsed hour and UTC offset
IsIsoFormat(s) == Len(s) = 2 /\ s[1] \in 0..9 /\ s[2] \in 0..9

fromisoformat(s) == [hour |-> s[1], utcoffset |-> s[2]]

\* datetime.isoformat()
isoformat(dt) == <<dt.hour, dt.utcoffset>>

Value(v) == [value |-> v]

Raises(e) == [raises |-> e]

\* the state property on coordinator.data: fromisoformat raises TypeError on
\* an argument that is no str (not caught) and ValueError on a str it cannot
\* parse (caught at line 130)
state(d) ==
    IF d # None /\ Len(d.arr) > 0
    THEN LET launchDate == Get(d.arr[1], "launchDate") IN
         IF ~IsStr(launchDate) THEN Raises("TypeError")
         ELSE IF ~IsIsoFormat(launchDate.str) THEN Value(Str(Unknown))
         ELSE Value(Str(isoformat(fromisoformat(launchDate.str))))
    ELSE Value(Str(Unknown))

\* "Data provided by RNLI Web API"
ATTRIBUTION ==
    <<68, 97, 116, 97, 32, 112, 114, 111, 118, 105, 100, 101, 100, 32, 98, 121, 32,
      82, 78, 76, 73, 32, 87, 101, 98, 32, 65, 80, 73>>

\* "No recent launches found for this station."
NoRecentLaunches ==
    <<78, 111, 32, 114, 101, 99, 101, 110, 116, 32, 108, 97, 117, 110, 99, 104, 101, 115,
      32, 102, 111, 117, 110, 100, 32, 102, 111, 114, 32, 116, 104, 105, 115, 32,
      115, 116, 97, 116, 105, 111, 110, 46>>

\* the record keys line 149 keeps out of the pass-through
NotPassedThrough == {"id", "lifeboat_IdNo", "title", "website", "shortName", "launchDate"}

\* the keys of the first record the loop of lines 148-150 copies
PassedThrough(latest_launch) == DOMAIN latest_launch.obj \ NotPassedThrough

\* (an empty cache rendered without the note)
NoLaunchAttributesBare(base) == base

\* line 152: the attributes of an empty cache
NoLaunchAttributes(base) ==
    [key \in DOMAIN base \cup {"last_launch_info"} |->
       IF key = "last_launch_info" THEN Str(NoRecentLaunches) ELSE base[key]]

\* the extra_state_attributes property on coordinator.data: a dict built by
\* assignments in the order of lines 137-152, a later assignment to a key
\* replacing an earlier one
extra_state_attributes(d, station) ==
    LET base == [attribution |-> Str(ATTRIBUTION), station_monitored |-> Str(station)]
    IN IF d # None /\ Len(d.arr) > 0
       THEN LET latest_launch == d.arr[1]
                fixed == [launch_id |-> Get(latest_launch, "id"),
                          lifeboat_id |-> Get(latest_launch, "lifeboat_IdNo"),
                          station_title |-> Get(latest_launch, "title"),
                          station_website |-> Get(latest_launch, "website")]
                passed == PassedThrough(latest_launch)
            IN [key \in DOMAIN base \cup DOMAIN fixed \cup passed |->
                  IF key \in passed THEN latest_launch.obj[key]
                  ELSE IF key \in DOMAIN fixed THEN fixed[key]
                  ELSE base[key]]
       ELSE NoLaunchAttributes(base)

\* ------------------------------------------------------------------------
\* What the endpoint serves
\* ------------------------------------------------------------------------

Launch(shortName, id, launchDate) ==
    Obj([shortName |-> Str(shortName), id |-> Num(id), launchDate |-> launchDate])

\* a launch object without a launchDate key
LaunchNoDate(shortName, id) == Obj([shortName |-> Str(shortName), id |-> Num(id)])

SeqUpTo(S, n) == UNION {[1..k -> S] : k \in 0..n}

\* launch objects served to the coordinator in every order and multiplicity:
\* two timestamps of the station with different UTC offsets and a launch of
\* another station
ServedRecords ==
    {Launch(ABC, 1, Str(Iso(1, 0))), Launch(ABC, 2, Str(Iso(2, 2))),
     Launch(XYZ, 3, Str(Iso(3, 0)))}

\* launch objects whose launchDate is no timestamp: a string that does not
\* parse, a null, a number, no launchDate at all
OddRecords ==
    {Launch(ABC, 4, Str(Garbage)), Launch(ABC, 5, None), Launch(ABC, 6, Num(5)),
     LaunchNoDate(ABC, 7)}

\* arrays of objects with such a launch: alone, and a null next to a timestamp
OddBodies ==
    {Arr(<<r>>) : r \in OddRecords}
    \cup {Arr(<<Launch(ABC, 5, None), Launch(ABC, 1, Str(Iso(1, 0)))>>)}

\* bodies that are JSON but no array of objects: {}, {"error": "n/a"}, "",
\* "n/a", 0, null, [1], [{...}, 1]
MalformedBodies ==
    {Obj(<<>>), Obj([error |-> Str(Garbage)]), Str(EmptyStr), Str(Garbage), Num(0), None,
     Arr(<<Num(1)>>), Arr(<<Launch(ABC, 1, Str(Iso(1, 0))), Num(1)>>)}

Bodies ==
    {Arr(s) : s \in SeqUpTo(ServedRecords, MaxBody)} \cup OddBodies \cup MalformedBodies

\* well-typed launch records for the filter/sort step alone: launchDate a
\* str or absent, two stations, records that differ only in their id
SelectRecords ==
    {Launch(ABC, i, Str(d)) : i \in {1, 2}, d \in {Iso(1, 0), Iso(2, 2)}}
    \cup {LaunchNoDate(ABC, i) : i \in {1, 2}}
    \cup {Launch(XYZ, 3, Str(d)) : d \in {Iso(1, 0), Iso(2, 2)}}

\* record r with one more field
With(r, key, value) ==
    Obj([k \in DOMAIN r.obj \cup {key} |-> IF k = key THEN value ELSE r.obj[k]])

\* a launch object with the fields the attribute map names and one more
FullLaunch(shortName, id, launchDate) ==
    Obj([shortName |-> Str(shortName), id |-> Num(id), launchDate |-> launchDate,
         lifeboat_IdNo |-> Str(<<49, 55>>), title |-> Str(<<65, 32, 66>>),
         website |-> Str(<<104, 116, 116, 112>>), lifeboatClass |-> Str(<<68>>)])

\* launch objects for the sensor view alone: a full one, a bare one, and
\* launches with a field named like a key the attribute map sets itself
ViewRecords ==
    {FullLaunch(ABC, 1, Str(Iso(1, 0))),
     Launch(ABC, 2, Str(Iso(2, 2))),
     With(Launch(ABC, 3, Str(Iso(3, 0))), "station_monitored", Str(XYZ)),
     With(Launch(ABC, 4, Str(Iso(4, 0))), "attribution", Str(XYZ)),
     With(Launch(ABC, 5, Str(Iso(5, 0))), "launch_id", Num(0)),
     With(Launch(ABC, 6, Str(Iso(0, 0))), "last_launch_info", Str(XYZ)),
     Launch(XYZ, 7, Str(Iso(1, 0)))}

\* ------------------------------------------------------------------------
\* State
\* ------------------------------------------------------------------------

VARIABLES
    entry_data,           \* config_entry.data of the entry being set up
    station_short_name,   \* coordinator.station_short_name ("" while none is constructed)
    setup,                \* where async_setup_entry (sensor.py) stands
    data,                 \* coordinator.data: None until the first success
    last_update_success,  \* coordinator.last_update_success
    last_exception,       \* coordinator.last_exception
    task,                 \* the refreshes in flight, by what started them
    listeners,            \* whether the sensor entity listens to the coordinator
    unsub_refresh,        \* whether the update_interval timer is scheduled
    debouncer,            \* the request-refresh debouncer: cooldown timer, pending call
    response,             \* the body last decoded at line 78
    raised,               \* what the refresh that finished last raised to its caller
    notified,             \* listener notifications raised by the latest step
    rendered,             \* the sensor state as last computed by the state property
    attributes,           \* the attribute map as last computed by extra_state_attributes
    next_refresh_in,      \* seconds the update_interval timer was scheduled for (0: none)
    coordinators,         \* the coordinators of several entries, by station (SpecStations)
    available_stations,   \* RNLIConfigFlow.available_stations
    flow,                 \* what the latest async_step_user call did and returned
    entries,              \* the config entries created, by entry id: their unique ids
    loaded,               \* the state of every config entry, by entry id
    hass_data             \* hass.data[DOMAIN]: entry id -> entry.data

vars ==
    <<entry_data, station_short_name, setup, data, last_update_success, last_exception,
      task, listeners, unsub_refresh, debouncer, response, raised, notified, rendered,
      attributes, next_refresh_in, coordinators, available_stations, flow, entries, loaded,
      hass_data>>

\* the state of the other coordinators, of the config flow and of the entry
\* registry: no step of this coordinator reads or writes it
outside == <<coordinators, available_stations, flow, entries, loaded, hass_data>>

\* no other coordinator, no flow step taken, no entry created or set up
OutsideAtRest ==
    /\ coordinators = <<>>
    /\ available_stations = <<>>
    /\ flow = None
    /\ entries = <<>>
    /\ loaded = <<>>
    /\ hass_data = <<>>

\* config_entry.data as the config flow writes it (line 90 of config_flow.py),
\* with an empty station, and without the key
EntryData ==
    {Obj([station_short_name |-> Str(ABC)]), Obj([station_short_name |-> Str(EmptyStr)]),
     Obj(<<>>)}

\* (a check for a missing station only)
FalsyIfMissing(x) == x = None

\* not x, for x a str or None
Falsy(x) == x = None \/ x = Str(EmptyStr)

\* a refresh is started by the first refresh of setup, by the update_interval
\* timer, or by a refresh request through the debouncer
Origins == {"first", "timer", "request"}

Idle == [pc |-> "idle", previous_update_success |-> TRUE]

NoBody == [nobody |-> TRUE]

InFlight == {o \in Origins : task[o].pc # "idle"}

\* CacheEntry.lastError: the recorded exception while the last attempt failed
lastError == IF last_update_success THEN None ELSE last_exception

Init ==
    /\ entry_data \in EntryData
    /\ station_short_name = EmptyStr
    /\ setup = "init"
    /\ data = None
    /\ last_update_success = TRUE
    /\ last_exception = None
    /\ task = [o \in Origins |-> Idle]
    /\ listeners = FALSE
    /\ unsub_refresh = FALSE
    /\ debouncer = [timer |-> FALSE, execute_at_end |-> FALSE]
    /\ response = NoBody
    /\ raised = "none"
    /\ notified = 0
    /\ rendered = None
    /\ attributes = None
    /\ next_refresh_in = 0
    /\ OutsideAtRest

\* ------------------------------------------------------------------------
\* The coordinator
\* ------------------------------------------------------------------------

\* (a failed refresh that empties the cache)
NewDataClearsOnFailure(result, old) == IF result.ok THEN result.value ELSE Arr(<<>>)

\* (a refresh that appends to the cached list instead of replacing it)
NewDataMerges(result, old) ==
    IF ~result.ok THEN old
    ELSE IF old = None THEN result.value
    ELSE Arr(old.arr \o result.value.arr)

\* self.data = await self._async_update_data(): assigned on success only
NewData(result, old) == IF result.ok THEN result.value ELSE old

\* (a refresh that lets the UpdateFailed through to every caller)
PropagatesUpdateFailed(o, ok) == IF ok THEN "none" ELSE "UpdateFailed"

\* what a finished refresh raises to its caller: _async_refresh absorbs the
\* UpdateFailed; async_config_entry_first_refresh raises ConfigEntryNotReady
\* when the refresh did not succeed
Propagates(o, ok) == IF o = "first" /\ ~ok THEN "ConfigEntryNotReady" ELSE "none"

\* (listeners updated on success only)
NotifyOnSuccessOnly(previous_update_success, ok) == ok

\* listeners are updated after a refresh unless it failed and the coordinator
\* was already failed when it started
ShouldNotify(previous_update_success, ok) == ok \/ previous_update_success

\* (the entity added whatever the first refresh did)
EntityAddedAlways(o, ok) == o = "first"

\* line 52 is reached only when line 49 did not raise
EntityAdded(o, ok) == o = "first" /\ ok

\* (an interval doubled after a failed refresh)
NextIntervalBackoff(ok) == IF ok THEN SCAN_INTERVAL ELSE 2 * SCAN_INTERVAL

\* update_interval=SCAN_INTERVAL (line 68): the delay of every scheduling
NextInterval(ok) == SCAN_INTERVAL

\* (a refresh that schedules the next one whether or not anyone listens)
ReschedulesAlways(has_listeners) == TRUE

\* a finished refresh schedules the next one if the coordinator has listeners
Reschedules(has_listeners) == has_listeners

\* the start of a refresh: the interval timer and the debouncer are
\* cancelled, previous_update_success is taken, line 76 is awaited
StartRefresh(o) ==
    /\ task' = [task EXCEPT ![o] = [pc |-> "get", previous_update_success |-> last_update_success]]
    /\ unsub_refresh' = FALSE
    /\ next_refresh_in' = 0
    /\ debouncer' = [timer |-> FALSE, execute_at_end |-> FALSE]

\* the end of a refresh: _async_update_data returned or raised.  The entity
\* computes its state when it is added (line 52) and when it is told of a
\* successful refresh; told of a failed one it is unavailable
\* (available = last_update_success) and the state property is not read.
Finish(o, result) ==
    LET ok == result.ok
        added == EntityAdded(o, ok)
        notify == ShouldNotify(task[o].previous_update_success, ok)
    IN /\ data' = NewData(result, data)
       /\ last_update_success' = ok
       /\ last_exception' = IF ok THEN last_exception ELSE result.exc
       /\ task' = [task EXCEPT ![o] = Idle]
       /\ listeners' = (listeners \/ added)
       /\ unsub_refresh' = (Reschedules(listeners') \/ unsub_refresh)
       /\ next_refresh_in' = IF Reschedules(listeners') THEN NextInterval(ok)
                              ELSE next_refresh_in
       /\ debouncer' = IF o = "request" THEN [timer |-> TRUE, execute_at_end |-> FALSE]
                       ELSE debouncer
       /\ setup' = IF o # "first" THEN setup ELSE IF ok THEN "loaded" ELSE "not_ready"
       /\ raised' = Propagates(o, ok)
       /\ notified' = IF notify THEN 1 ELSE 0
       /\ rendered' = IF added \/ (listeners /\ notify /\ ok) THEN state(data') ELSE rendered
       /\ attributes' = IF (added \/ (listeners /\ notify /\ ok)) /\ "value" \in DOMAIN rendered'
                         THEN extra_state_attributes(data', station_short_name)
                         ELSE attributes
       /\ UNCHANGED <<entry_data, station_short_name, outside>>

\* async_setup_entry up to the await of line 49: without a station it
\* returns at line 41, else the coordinator is constructed (line 46)
SetupEntry ==
    /\ setup = "init"
    /\ LET name == Get(entry_data, "station_short_name")
       IN IF Falsy(name)
          THEN /\ setup' = "returned"
               /\ UNCHANGED <<station_short_name, task, unsub_refresh, debouncer,
                              next_refresh_in>>
          ELSE /\ setup' = "first_refresh"
               /\ station_short_name' = name.str
               /\ StartRefresh("first")
    /\ notified' = 0
    /\ UNCHANGED <<entry_data, data, last_update_success, last_exception, listeners,
                   response, raised, rendered, attributes, outside>>

\* async_unload_entry (__init__.py) with the platform unloaded: the entity is
\* removed, and with the last listener gone the coordinator cancels the
\* interval timer and the debouncer; the state of the removed entity is
\* removed with it.  A refresh in flight is left alone.
UnloadEntry ==
    /\ setup = "loaded"
    /\ setup' = "unloaded"
    /\ listeners' = FALSE
    /\ unsub_refresh' = FALSE
    /\ next_refresh_in' = 0
    /\ debouncer' = [timer |-> FALSE, execute_at_end |-> FALSE]
    /\ notified' = 0
    /\ rendered' = None
    /\ attributes' = None
    /\ UNCHANGED <<entry_data, station_short_name, data, last_update_success,
                   last_exception, task, response, raised, outside>>

\* the update_interval timer fires.  It was scheduled when the last refresh
\* ended, SCAN_INTERVAL (5 min) ago: no fetch (10 s timeout) and no debouncer
\* cooldown is still running.
TimerTick ==
    /\ unsub_refresh
    /\ InFlight = {}
    /\ ~debouncer.timer
    /\ StartRefresh("timer")
    /\ notified' = 0
    /\ UNCHANGED <<entry_data, station_short_name, setup, data, last_update_success,
                   last_exception, listeners, response, raised, rendered, attributes,
                   outside>>

\* a refresh request for the entity (CoordinatorEntity.async_update): during
\* the cooldown it is deferred to the end of it, while a requested refresh
\* is running it returns at once, else it starts a refresh
RequestRefresh ==
    /\ listeners
    /\ IF debouncer.timer
       THEN /\ debouncer' = [debouncer EXCEPT !.execute_at_end = TRUE]
            /\ UNCHANGED <<task, unsub_refresh, next_refresh_in>>
       ELSE IF task["request"].pc # "idle"
       THEN UNCHANGED <<task, unsub_refresh, debouncer, next_refresh_in>>
       ELSE StartRefresh("request")
    /\ notified' = 0
    /\ UNCHANGED <<entry_data, station_short_name, setup, data, last_update_success,
                   last_exception, listeners, response, raised, rendered, attributes,
                   outside>>

\* the cooldown ends (10 s after the requested refresh did, so every fetch
\* that was running then is over): a deferred request starts a refresh
DebounceExpire ==
    /\ debouncer.timer
    /\ InFlight = {}
    /\ IF debouncer.execute_at_end
       THEN StartRefresh("request")
       ELSE /\ debouncer' = [timer |-> FALSE, execute_at_end |-> FALSE]
            /\ UNCHANGED <<task, unsub_refresh, next_refresh_in>>
    /\ notified' = 0
    /\ UNCHANGED <<entry_data, station_short_name, setup, data, last_update_success,
                   last_exception, listeners, response, raised, rendered, attributes,
                   outside>>

\* lines 76-77: the response arrives with a 2xx status, or the await fails
RecvResponse(o) ==
    /\ task[o].pc = "get"
    /\ \/ /\ task' = [task EXCEPT ![o].pc = "json"]
          /\ notified' = 0
          /\ UNCHANGED <<entry_data, station_short_name, setup, data, last_update_success,
                         last_exception, listeners, unsub_refresh, debouncer, response,
                         raised, rendered, attributes, next_refresh_in, outside>>
       \/ \E f \in GetFailures : Finish(o, Raise(f)) /\ UNCHANGED response

\* lines 78-90: the body, one of bodies, is decoded, filtered and sorted, or
\* the await fails
RecvJsonFrom(o, bodies) ==
    /\ task[o].pc = "json"
    /\ \/ \E body \in bodies :
             /\ response' = body
             /\ Finish(o, ProcessBody(body, station_short_name))
       \/ \E f \in JsonFailures : Finish(o, Raise(f)) /\ response' = NoBody

RecvJson(o) == RecvJsonFrom(o, Bodies)

Next ==
    \/ SetupEntry
    \/ UnloadEntry
    \/ TimerTick
    \/ RequestRefresh
    \/ DebounceExpire
    \/ \E o \in Origins : RecvResponse(o)
    \/ \E o \in Origins : RecvJson(o)

Spec == Init /\ [][Next]_vars

\* the bodies that matter to the scheduling of refreshes: one that empties
\* the cache, one with a launch of the station, one that fails to parse
CadenceBodies ==
    {Arr(<<>>), Arr(<<Launch(ABC, 1, Str(Iso(1, 0)))>>), Obj([error |-> Str(Garbage)])}

NextCadence ==
    \/ SetupEntry
    \/ UnloadEntry
    \/ TimerTick
    \/ RequestRefresh
    \/ DebounceExpire
    \/ \E o \in Origins : RecvResponse(o)
    \/ \E o \in Origins : RecvJsonFrom(o, CadenceBodies)

\* the event loop runs every timer that is due (the update_interval timer,
\* the debouncer cooldown), and every await of lines 76-78 ends within the
\* 10 s of line 75
FairSpec ==
    /\ Init
    /\ [][NextCadence]_vars
    /\ WF_vars(TimerTick)
    /\ WF_vars(DebounceExpire)
    /\ \A o \in Origins :
          WF_vars(RecvResponse(o)) /\ WF_vars(RecvJsonFrom(o, CadenceBodies))

\* ------------------------------------------------------------------------
\* The filter/sort step alone, on every well-typed response
\* ------------------------------------------------------------------------

InitSelect ==
    /\ station_short_name \in {ABC, XYZ}
    /\ entry_data = Obj([station_short_name |-> Str(station_short_name)])
    /\ response \in {Arr(s) : s \in SeqUpTo(SelectRecords, MaxLen)}
    /\ setup = "init"
    /\ data = None
    /\ last_update_success = TRUE
    /\ last_exception = None
    /\ task = [o \in Origins |-> Idle]
    /\ listeners = FALSE
    /\ unsub_refresh = FALSE
    /\ debouncer = [timer |-> FALSE, execute_at_end |-> FALSE]
    /\ raised = "none"
    /\ notified = 0
    /\ rendered = None
    /\ attributes = None
    /\ next_refresh_in = 0
    /\ OutsideAtRest

\* lines 81-90 applied to the response
ApplySelect ==
    /\ data = None
    /\ LET result == ProcessBody(response, station_short_name)
       IN result.ok /\ data' = result.value
    /\ UNCHANGED <<entry_data, station_short_name, setup, last_update_success,
                   last_exception, task, listeners, unsub_refresh, debouncer, response,
                   raised, notified, rendered, attributes, next_refresh_in, outside>>

NextSelect == ApplySelect

SpecSelect == InitSelect /\ [][NextSelect]_vars

\* ------------------------------------------------------------------------
\* The sensor view alone, on the cache of every response
\* ------------------------------------------------------------------------

InitView ==
    /\ station_short_name \in {ABC, XYZ}
    /\ entry_data = Obj([station_short_name |-> Str(station_short_name)])
    /\ response \in {Arr(s) : s \in SeqUpTo(ViewRecords, MaxBody)}
    /\ setup = "init"
    /\ data = None
    /\ last_update_success = TRUE
    /\ last_exception = None
    /\ task = [o \in Origins |-> Idle]
    /\ listeners = FALSE
    /\ unsub_refresh = FALSE
    /\ debouncer = [timer |-> FALSE, execute_at_end |-> FALSE]
    /\ raised = "none"
    /\ notified = 0
    /\ rendered = None
    /\ attributes = None
    /\ next_refresh_in = 0
    /\ OutsideAtRest

\* the state and extra_state_attributes properties read on the cache
RenderView ==
    /\ rendered' = state(data)
    /\ attributes' = extra_state_attributes(data, station_short_name)
    /\ UNCHANGED <<entry_data, station_short_name, setup, data, last_update_success,
                   last_exception, task, listeners, unsub_refresh, debouncer, response,
                   raised, notified, next_refresh_in, outside>>

NextView == ApplySelect \/ RenderView

SpecView == InitView /\ [][NextView]_vars

\* ------------------------------------------------------------------------
\* Several config entries: one coordinator per station  (sensor.py line 46)
\* ------------------------------------------------------------------------

\* the stations of the configured entries
Stations == {ABC, XYZ}

\* what the endpoint, the same for every coordinator, serves them
StationBodies ==
    {Arr(s) : s \in SeqUpTo(ServedRecords, 1)}
    \cup {Arr(<<Launch(ABC, 1, Str(Iso(1, 0))), Launch(XYZ, 3, Str(Iso(3, 0)))>>)}

\* the main coordinator, its entity and its entry stay as constructed
InsideUnchanged ==
    UNCHANGED <<entry_data, station_short_name, setup, data, last_update_success,
                last_exception, task, listeners, unsub_refresh, debouncer, response,
                raised, notified, rendered, attributes, next_refresh_in>>

InitStations ==
    /\ entry_data = Obj(<<>>)
    /\ station_short_name = EmptyStr
    /\ setup = "init"
    /\ data = None
    /\ last_update_success = TRUE
    /\ last_exception = None
    /\ task = [o \in Origins |-> Idle]
    /\ listeners = FALSE
    /\ unsub_refresh = FALSE
    /\ debouncer = [timer |-> FALSE, execute_at_end |-> FALSE]
    /\ response = NoBody
    /\ raised = "none"
    /\ notified = 0
    /\ rendered = None
    /\ attributes = None
    /\ next_refresh_in = 0
    /\ coordinators = [c \in Stations |->
                         [pc |-> "idle", data |-> None, last_update_success |-> TRUE,
                          last_exception |-> None]]
    /\ available_stations = <<>>
    /\ flow = None
    /\ entries = <<>>
    /\ loaded = <<>>
    /\ hass_data = <<>>

\* (coordinator state kept on the class: a refresh writes every coordinator)
WrittenByAll(c) == Stations

\* the coordinators whose attributes a refresh of coordinator c assigns:
\* data, last_update_success and last_exception are instance attributes
WrittenBy(c) == {c}

\* a refresh of coordinator c starts: its own GET of line 76
RefreshNow(c) ==
    /\ coordinators[c].pc = "idle"
    /\ coordinators' = [coordinators EXCEPT ![c].pc = "get"]
    /\ UNCHANGED <<available_stations, flow, entries, loaded, hass_data>>
    /\ InsideUnchanged

\* the end of a refresh of coordinator c with the given result
FinishOf(c, result) ==
    /\ coordinators' =
         [d \in Stations |->
            IF d \in WrittenBy(c)
            THEN [pc |-> IF d = c THEN "idle" ELSE coordinators[d].pc,
                  data |-> NewData(result, coordinators[d].data),
                  last_update_success |-> result.ok,
                  last_exception |-> IF result.ok THEN coordinators[d].last_exception
                                     ELSE result.exc]
            ELSE coordinators[d]]
    /\ UNCHANGED <<available_stations, flow, entries, loaded, hass_data>>
    /\ InsideUnchanged

\* lines 76-95 of coordinator c: the body is fetched and selected for its
\* station, or the fetch fails
RefreshEnds(c) ==
    /\ coordinators[c].pc = "get"
    /\ \/ \E body \in StationBodies : FinishOf(c, ProcessBody(body, c))
       \/ FinishOf(c, Raise("ClientConnectionError"))

NextStations ==
    \/ \E c \in Stations : RefreshNow(c)
    \/ \E c \in Stations : RefreshEnds(c)

SpecStations == InitStations /\ [][NextStations]_vars

\* ------------------------------------------------------------------------
\* The config flow and the entry registry  (config_flow.py, __init__.py)
\* ------------------------------------------------------------------------

\* "A B", a station title
Title == <<65, 32, 66>>

\* a launch object as the flow reads it
Titled(shortName) == Obj([shortName |-> Str(shortName), title |-> Str(Title)])

\* decoded bodies of the station list fetch: [], one station, two, one twice,
\* a launch without a title, a launch followed by a number, {}, null, "n/a"
FlowBodies ==
    {Arr(<<>>), Arr(<<Titled(ABC)>>), Arr(<<Titled(ABC), Titled(XYZ)>>),
     Arr(<<Titled(ABC), Titled(ABC)>>), Arr(<<Obj([shortName |-> Str(ABC)])>>),
     Arr(<<Titled(ABC), Num(1)>>), Obj(<<>>), None, Str(Garbage)}

\* what the awaits of lines 44-46 can end in, besides a decoded body
FlowFailures ==
    {"TimeoutError", "ClientConnectionError", "ClientResponseError", "JSONDecodeError"}

FlowOutcomes == {[raises |-> f] : f \in FlowFailures} \cup {[body |-> b] : b \in FlowBodies}

\* user_input of a call: none, or the submitted station
UserInputs == {None} \cup {Obj([station_short_name |-> Str(st)]) : st \in {ABC, XYZ}}

\* x is true in a condition, for x a str or None
Truthy(x) == IsStr(x) /\ x.str # EmptyStr

\* lines 49-53: the loop over the decoded body adds to the dict as it goes
\* and stops at the first element that has no .get
RECURSIVE Collect(_, _)
Collect(items, stations) ==
    IF items = <<>> THEN [stations |-> stations, exc |-> "none"]
    ELSE LET launch == Head(items) IN
         IF ~IsObj(launch) THEN [stations |-> stations, exc |-> "AttributeError"]
         ELSE LET short_name == Get(launch, "shortName")
                  title == Get(launch, "title")
              IN IF Truthy(short_name) /\ Truthy(title)
                    /\ short_name.str \notin DOMAIN stations
                 THEN Collect(Tail(items),
                              [k \in DOMAIN stations \cup {short_name.str} |->
                                 IF k = short_name.str THEN title.str ELSE stations[k]])
                 ELSE Collect(Tail(items), stations)

\* lines 44-53 with the given end of the awaits
FetchStations(outcome, stations) ==
    IF "raises" \in DOMAIN outcome THEN [stations |-> stations, exc |-> outcome.raises]
    ELSE IF IsNum(outcome.body) \/ outcome.body = None
    THEN [stations |-> stations, exc |-> "TypeError"]
    ELSE Collect(Iterate(outcome.body), stations)

\* lines 55-63: errors["base"]
ErrorOf(exc, stations) ==
    IF exc \in ClientErrors \cup {"TimeoutError"} THEN "cannot_connect"
    ELSE IF exc # "none" THEN "unknown"
    ELSE IF DOMAIN stations = {} THEN "no_stations_found"
    ELSE "none"

\* the unique ids of the config entries
Configured == {entries[e] : e \in DOMAIN entries}

\* a flow that has not been called yet
NewFlowState == [result |-> "init", error |-> "none", fetched |-> FALSE, failed |-> FALSE]

\* the coordinator of Spec and the coordinators of SpecStations stay as they are
RestUnchanged == InsideUnchanged /\ UNCHANGED coordinators

InitFlow ==
    /\ entry_data = Obj(<<>>)
    /\ station_short_name = EmptyStr
    /\ setup = "init"
    /\ data = None
    /\ last_update_success = TRUE
    /\ last_exception = None
    /\ task = [o \in Origins |-> Idle]
    /\ listeners = FALSE
    /\ unsub_refresh = FALSE
    /\ debouncer = [timer |-> FALSE, execute_at_end |-> FALSE]
    /\ response = NoBody
    /\ raised = "none"
    /\ notified = 0
    /\ rendered = None
    /\ attributes = None
    /\ next_refresh_in = 0
    /\ coordinators = <<>>
    /\ available_stations = <<>>
    /\ flow = NewFlowState
    /\ entries = <<>>
    /\ loaded = <<>>
    /\ hass_data = <<>>

\* async_step_user(user_input) on the flow in progress, with the given end
\* of the station list fetch if there is one
StepUser(user_input, outcome) ==
    /\ flow.result \in {"init", "form"}
    /\ LET fetch == DOMAIN available_stations = {}
           got == IF fetch THEN FetchStations(outcome, available_stations)
                  ELSE [stations |-> available_stations, exc |-> "none"]
           error == IF fetch THEN ErrorOf(got.exc, got.stations) ELSE "none"
           selected == user_input.obj.station_short_name.str
       IN /\ available_stations' = got.stations
          /\ IF error # "none" \/ user_input = None
             THEN /\ flow' = [result |-> "form", error |-> error, fetched |-> fetch,
                              failed |-> got.exc # "none"]
                  /\ UNCHANGED <<entries, loaded>>
             ELSE IF selected \in Configured
             THEN /\ flow' = [result |-> "abort", error |-> "none", fetched |-> fetch,
                              failed |-> FALSE]
                  /\ UNCHANGED <<entries, loaded>>
             ELSE /\ flow' = [result |-> "create_entry", error |-> "none", fetched |-> fetch,
                              failed |-> FALSE]
                  /\ entries' = Append(entries, selected)
                  /\ loaded' = Append(loaded, "not_loaded")
    /\ UNCHANGED hass_data
    /\ RestUnchanged

\* another flow is started: RNLIConfigFlow.__init__
NewFlow ==
    /\ flow.result # "init"
    /\ flow' = NewFlowState
    /\ available_stations' = <<>>
    /\ UNCHANGED <<entries, loaded, hass_data>>
    /\ RestUnchanged

\* config_entry.data of entry e (line 90 of config_flow.py)
DataOf(e) == Obj([station_short_name |-> Str(entries[e])])

\* async_setup_entry of __init__.py for entry e
SetupEntryOf(e) ==
    /\ loaded[e] = "not_loaded"
    /\ hass_data' = [k \in DOMAIN hass_data \cup {e} |->
                       IF k = e THEN DataOf(e) ELSE hass_data[k]]
    /\ loaded' = [loaded EXCEPT ![e] = "loaded"]
    /\ UNCHANGED <<available_stations, flow, entries>>
    /\ RestUnchanged

\* (the entry's data removed whatever the platform unload returned)
PopsAlways(unload_ok) == TRUE

\* line 29: the entry's data is removed if the platforms unloaded
Pops(unload_ok) == unload_ok

\* async_unload_entry of __init__.py for entry e, async_unload_platforms
\* returning unload_ok
UnloadEntryOf(e, unload_ok) ==
    /\ loaded[e] = "loaded"
    /\ hass_data' = IF Pops(unload_ok) THEN [k \in DOMAIN hass_data \ {e} |-> hass_data[k]]
                    ELSE hass_data
    /\ loaded' = [loaded EXCEPT ![e] = IF unload_ok THEN "not_loaded" ELSE "failed_unload"]
    /\ UNCHANGED <<available_stations, flow, entries>>
    /\ RestUnchanged

NextFlow ==
    \/ \E user_input \in UserInputs, outcome \in FlowOutcomes : StepUser(user_input, outcome)
    \/ NewFlow
    \/ \E e \in DOMAIN entries : SetupEntryOf(e)
    \/ \E e \in DOMAIN entries, unload_ok \in BOOLEAN : UnloadEntryOf(e, unload_ok)

SpecFlow == InitFlow /\ [][NextFlow]_vars

\* ------------------------------------------------------------------------
\* Properties
\* ------------------------------------------------------------------------

\* the refresh started by o ends in this step
Completes(o) == task[o].pc # "idle" /\ task'[o].pc = "idle"

\* the objects of a decoded body
RecordsOf(body) == IF IsArr(body) THEN body.arr ELSE <<>>

\* the launch timestamp a record is ordered by
TimestampOf(r) == IF "launchDate" \in DOMAIN r.obj THEN r.obj.launchDate ELSE Str(EmptyStr)

\* d is the selection of station s from records: ordered by timestamp
\* descending, and for every timestamp the records of d with it are exactly
\* the records of the station with it, in their original order
IsSelectionOf(d, records, s) ==
    /\ \A i, j \in 1..Len(d) :
          i < j => ~StrLess(TimestampOf(d[i]).str, TimestampOf(d[j]).str)
    /\ \A k \in {TimestampOf(records[i]) : i \in 1..Len(records)}
               \cup {TimestampOf(d[i]) : i \in 1..Len(d)} :
          SelectSeq(d, LAMBDA r : TimestampOf(r) = k)
            = SelectSeq(records,
                        LAMBDA r : TimestampOf(r) = k
                                   /\ "shortName" \in DOMAIN r.obj
                                   /\ r.obj.shortName = Str(s))

\* C1: at most one fetch is in flight at any time, whatever started the
\* refreshes (first refresh of setup, interval timer, refresh request).
AtMostOneInFlight == Cardinality(InFlight) <= 1

\* C2: a refresh that fails leaves data as it was and sets lastError; a
\* refresh that succeeds clears lastError and makes data the selection of
\* the station from the body just decoded; lastError becomes set only in a
\* step in which a refresh fails.
FailurePreservesData ==
    [][/\ \A o \in Origins :
             Completes(o) =>
               IF last_update_success'
               THEN /\ lastError' = None
                    /\ IsArr(data')
                    /\ IsSelectionOf(data'.arr, RecordsOf(response'), station_short_name)
               ELSE data' = data /\ lastError' # None
       /\ ((lastError' # lastError /\ lastError' # None)
             => \E o \in Origins : Completes(o) /\ ~last_update_success')]_vars

\* C2 witness: a failed refresh has left a non-empty cache in place
StaleDataKept == ~last_update_success /\ data # None /\ Len(data.arr) > 0

\* C3: data changes only in the step that ends a refresh, and then to the
\* complete selection (filtered, sorted) of the body decoded in that step;
\* in every other step, in particular while a refresh is in flight, a reader
\* finds the snapshot unchanged.
CacheAtomicity ==
    [][data' # data =>
         /\ \E o \in Origins : Completes(o) /\ task[o].pc = "json"
         /\ IsArr(data')
         /\ IsSelectionOf(data'.arr, RecordsOf(response'), station_short_name)]_vars

\* C3 witness: a reader during a refresh finds a complete two-record snapshot
SnapshotReadWhileRefreshing == InFlight # {} /\ data # None /\ Len(data.arr) = 2 /\ listeners

TimeoutIsDistinctKind ==
    [][\A o \in Origins :
          (Completes(o) /\ ~last_update_success' /\ last_exception'.cause = "TimeoutError")
            => /\ data' = data
               /\ \A c \in {"ClientConnectionError", "ClientResponseError", "JSONDecodeError"} :
                     last_exception'.text # UpdateFailed(c).text]_vars

\* the first cached record has a launchDate that is no parseable timestamp
MalformedFirstTimestamp ==
    /\ data # None
    /\ Len(data.arr) > 0
    /\ LET launchDate == Get(data.arr[1], "launchDate")
       IN ~(IsStr(launchDate) /\ IsIsoFormat(launchDate.str))

\* C9: the state of a sensor whose first record has a malformed timestamp
\* (unparseable, not a string, null, missing) is "unknown"; computing it
\* never raises.
RenderNeverThrows ==
    (listeners /\ MalformedFirstTimestamp) => rendered = Value(Str(Unknown))

\* a body that is an array of objects
IsArrayOfObjects(body) == IsArr(body) /\ \A i \in 1..Len(body.arr) : IsObj(body.arr[i])

\* C10: a decoded body that is no array of objects makes the refresh fail
\* with the parse error: data is not replaced.
MalformedBodyFails ==
    [][\A o \in Origins :
          (Completes(o) /\ task[o].pc = "json" /\ response' # NoBody
             /\ ~IsArrayOfObjects(response'))
            => /\ data' = data
               /\ ~last_update_success'
               /\ last_exception'.text = ParseErrorText]_vars

\* C11: while the sensor listens, every refresh that ends, successful or
\* failed, leaves the update_interval timer scheduled SCAN_INTERVAL ahead,
\* the timer is never scheduled for any other delay, and whenever no refresh
\* is in flight one is started again, unless the entry is unloaded first.
FixedCadence ==
    /\ [][/\ \A o \in Origins :
               (Completes(o) /\ listeners')
                 => unsub_refresh' /\ next_refresh_in' = SCAN_INTERVAL
          /\ (unsub_refresh' => next_refresh_in' = SCAN_INTERVAL)]_vars
    /\ (listeners /\ InFlight = {}) ~> (InFlight # {} \/ setup = "unloaded")

\* C11 witness: the timer is scheduled SCAN_INTERVAL ahead after a failed refresh
RescheduledWhileFailed ==
    /\ unsub_refresh
    /\ next_refresh_in = SCAN_INTERVAL
    /\ listeners
    /\ ~last_update_success
    /\ notified = 0
    /\ InFlight = {}
    /\ raised = "none"
    /\ setup = "loaded"
    /\ ~debouncer.timer

Renders == rendered' # rendered \/ attributes' # attributes

\* the cache has no record: never fetched, or no launch of the station
EmptyCache == data = None \/ Len(data.arr) = 0

\* C13: rendering an empty cache (nothing fetched yet, or no record of the
\* station in the last response) gives the state "unknown" and exactly
\* three attributes: the attribution, the configured station and the "no
\* recent launches" note; no per-launch attribute.
EmptyCacheRendersUnknown ==
    [][(Renders /\ EmptyCache)
         => /\ rendered' = Value(Str(Unknown))
            /\ DOMAIN attributes' = {"attribution", "station_monitored", "last_launch_info"}
            /\ attributes'.attribution = Str(ATTRIBUTION)
            /\ attributes'.station_monitored = Str(station_short_name)
            /\ attributes'.last_launch_info = Str(NoRecentLaunches)]_vars

\* C13 witness: the response had launches, none of the station, and the
\* sensor was rendered with the note
RenderedWithoutLaunches ==
    /\ data = Arr(<<>>)
    /\ Len(response.arr) > 0
    /\ attributes # None
    /\ "last_launch_info" \in DOMAIN attributes
    /\ rendered = Value(Str(Unknown))

\* C16: whatever the cache holds and whatever fields its first record has,
\* the attribute map has the fixed attribution under "attribution" and the
\* configured station under "station_monitored", and for a non-empty cache
\* the four per-launch attributes are the id, lifeboat_IdNo, title and
\* website of the first record: no passed-through field replaces them.
FixedAttributesKept ==
    [][Renders
         => /\ attributes'.attribution = Str(ATTRIBUTION)
            /\ attributes'.station_monitored = Str(station_short_name)
            /\ (~EmptyCache
                  => /\ attributes'.launch_id = Get(data.arr[1], "id")
                     /\ attributes'.lifeboat_id = Get(data.arr[1], "lifeboat_IdNo")
                     /\ attributes'.station_title = Get(data.arr[1], "title")
                     /\ attributes'.station_website = Get(data.arr[1], "website"))]_vars

\* the launchDate of r is a str that fromisoformat parses
HasInstant(r) ==
    LET launchDate == Get(r, "launchDate")
    IN IsStr(launchDate) /\ IsIsoFormat(launchDate.str)

\* the instant the launchDate of r denotes: its hour less its UTC offset
Instant(r) ==
    LET dt == fromisoformat(Get(r, "launchDate").str) IN dt.hour - dt.utcoffset

\* C14: in every reachable state the records of a non-empty cache are in
\* descending order of the instants their timestamps denote, so that the
\* first record is the most recent launch.
SortedByInstant ==
    data # None
      => \A i, j \in 1..Len(data.arr) :
            (i < j /\ HasInstant(data.arr[i]) /\ HasInstant(data.arr[j]))
              => Instant(data.arr[i]) >= Instant(data.arr[j])

\* C15: a decoded array of objects never makes the refresh fail, whatever
\* the launchDate of its records (missing, null, unparseable); in the
\* cache the records without a parseable timestamp come after all the
\* others, in the order they had in the response.
UnusableTimestampsLast ==
    [][\A o \in Origins :
          (Completes(o) /\ task[o].pc = "json" /\ response' # NoBody
             /\ IsArrayOfObjects(response'))
            => /\ last_update_success'
               /\ \A i, j \in 1..Len(data'.arr) :
                     (i < j /\ ~HasInstant(data'.arr[i])) => ~HasInstant(data'.arr[j])
               /\ SelectSeq(data'.arr, LAMBDA r : ~HasInstant(r))
                    = SelectSeq(FilterStation(response'.arr, station_short_name),
                                LAMBDA r : ~HasInstant(r))]_vars

\* a coordinator has been constructed (line 46)
Constructed == setup \notin {"init", "returned"}

\* C18: set up with a missing or empty station_short_name, the platform
\* constructs no coordinator, starts no fetch and adds no sensor; a
\* coordinator that exists has the non-empty station of the entry, and its
\* station never changes.
StationRequired ==
    /\ [](/\ (Get(entry_data, "station_short_name") \in {None, Str(EmptyStr)}
                => (/\ ~Constructed
                    /\ InFlight = {}
                    /\ ~listeners
                    /\ data = None
                    /\ response = NoBody))
           /\ (Constructed
                => (/\ station_short_name # EmptyStr
                    /\ Str(station_short_name) = Get(entry_data, "station_short_name"))))
    /\ [][Constructed => station_short_name' = station_short_name]_vars

\* C18 witness: setup has returned for an entry without the station key
ReturnedWithoutStation == setup = "returned" /\ entry_data = Obj(<<>>)

Called ==
    /\ flow'.result # "init"
    /\ flow' # flow \/ available_stations' # available_stations \/ entries' # entries

\* C19: a call of async_step_user fetches the station list exactly when the
\* list is empty; a call whose fetch fails or yields no station returns the
\* form with cannot_connect, unknown or no_stations_found, creates no entry
\* and leaves the station list empty.
FailedDiscoveryLeavesNoStation ==
    [][Called
         => /\ flow'.fetched = (DOMAIN available_stations = {})
            /\ (flow'.fetched /\ (flow'.failed \/ DOMAIN available_stations' = {}))
                 => (/\ flow'.result = "form"
                     /\ flow'.error \in {"cannot_connect", "unknown", "no_stations_found"}
                     /\ entries' = entries
                     /\ DOMAIN available_stations' = {})]_vars

\* C20: no two config entries have the same station, and hass.data[DOMAIN]
\* holds the data of exactly the entries that were set up and not since
\* unloaded with success: an entry whose platform unload failed is still in.
RegistryMatchesEntries ==
    /\ \A e1, e2 \in DOMAIN entries : entries[e1] = entries[e2] => e1 = e2
    /\ DOMAIN hass_data = {e \in DOMAIN entries : loaded[e] \in {"loaded", "failed_unload"}}
    /\ \A e \in DOMAIN hass_data : hass_data[e] = DataOf(e)

\* C20 witness: a flow has aborted on a configured station, one entry has
\* failed to unload and another is unloaded
AbortedAndFailedUnload ==
    /\ flow.result = "abort"
    /\ Len(entries) = 2
    /\ loaded[1] = "failed_unload"
    /\ loaded[2] = "not_loaded"
    /\ DOMAIN hass_data = {1}

====
